---- MODULE Spec2Model ----
(***************************************************************************)
(* Model of the Nearest Station API (src/app.py): the coordinate extractor *)
(* extract_coordinates_from_url, haversine_distance, find_nearest_station  *)
(* and the four HTTP handlers.                                              *)
(*                                                                         *)
(* Representation.                                                          *)
(*  - A Python float is a record [k, v]: k = "fin" with v the value, k =   *)
(*    "nan", or k = "inf" with v the sign.  Coordinates are whole degrees, *)
(*    distances are in units of 0.0001 km.                                 *)
(*  - A Python object read from a spreadsheet cell or a query parameter is *)
(*    a record [t, v, s]: a number, a text that spells a number, the texts *)
(*    "nan", "inf", "-inf", another word, the empty text, or None.         *)
(*  - A dict is a function from its keys; a missing key is a key outside   *)
(*    its DOMAIN.                                                           *)
(*  - The outcome of a call that may raise is [exc, val]: exc = "none"     *)
(*    when it returns val, else the name of the exception raised.          *)
(*  - A URL text is the sequence of its lexemes (strings).                 *)
(***************************************************************************)
EXTENDS Integers, Sequences, FiniteSets, TLC

VARIABLES op, args, result, sheetCalls, pc

vars == <<op, args, result, sheetCalls, pc>>

\* ---------------------------------------------------------------- bounds
MaxStations == 3
MaxSegments == 3

\* ---------------------------------------------------------------- values
Fin(n) == [k |-> "fin", v |-> n]
NaN == [k |-> "nan", v |-> 0]
Inf(s) == [k |-> "inf", v |-> s]

Number(n) == [t |-> "number", v |-> n, s |-> ""]
NumText(n) == [t |-> "numtext", v |-> n, s |-> ""]
NanText == [t |-> "nantext", v |-> 0, s |-> "nan"]
InfText(sign) == [t |-> "inftext", v |-> sign, s |-> "inf"]
Word == [t |-> "word", v |-> 0, s |-> "abc"]
Empty == [t |-> "empty", v |-> 0, s |-> ""]
None == [t |-> "None", v |-> 0, s |-> ""]
Text(str) == [t |-> "text", v |-> 0, s |-> str]

Return(x) == [exc |-> "none", val |-> x]
Raise(e) == [exc |-> e, val |-> None]

\* float(x): a number converts, a text is parsed (ValueError when it spells
\* no number), anything else is a TypeError.
Float(x) ==
  CASE x.t = "number" -> Return(Fin(x.v))
    [] x.t = "numtext" -> Return(Fin(x.v))
    [] x.t = "nantext" -> Return(NaN)
    [] x.t = "inftext" -> Return(Inf(x.v))
    [] x.t \in {"word", "empty"} -> Raise("ValueError")
    [] OTHER -> Raise("TypeError")

\* Python truthiness of a parameter: None and the empty text are falsy.
Truthy(x) == x.t \notin {"None", "empty"}

\* a < b and a <= b on floats: every comparison with NaN is False.
Lt(a, b) ==
  CASE a.k = "nan" \/ b.k = "nan" -> FALSE
    [] a.k = "fin" /\ b.k = "fin" -> a.v < b.v
    [] a.k = "fin" /\ b.k = "inf" -> b.v > 0
    [] a.k = "inf" /\ b.k = "fin" -> a.v < 0
    [] OTHER -> a.v < b.v

Le(a, b) ==
  CASE a.k = "nan" \/ b.k = "nan" -> FALSE
    [] OTHER -> Lt(a, b) \/ a = b

\* a - b on floats.
FSub(a, b) ==
  CASE a.k = "nan" \/ b.k = "nan" -> NaN
    [] a.k = "fin" /\ b.k = "fin" -> Fin(a.v - b.v)
    [] a.k = "inf" /\ b.k = "fin" -> a
    [] a.k = "fin" /\ b.k = "inf" -> Inf(-b.v)
    [] OTHER -> IF a.v = b.v THEN NaN ELSE a

\* ------------------------------------------------------ haversine_distance
\* Lines 105-115 on finite arguments, at the whole-degree points the
\* queries and the station data use: <<lat1, lon1, lat2, lon2>> :> the
\* value the formula returns (r = 6371), in units of 0.0001 km.
HaversineTable ==
  (<<0, 0, 10, 0>> :> 11119493)
    @@ (<<0, 0, -10, 0>> :> 11119493)
    @@ (<<0, 0, 20, 10>> :> 24761714)
    @@ (<<0, 0, 1, 0>> :> 1111949)
    @@ (<<0, 0, 5, 0>> :> 5559746)
    @@ (<<5, 5, 10, 0>> :> 7827791)
    @@ (<<5, 5, -10, 0>> :> 17574740)
    @@ (<<5, 5, 20, 10>> :> 17534692)
    @@ (<<5, 5, 1, 0>> :> 7113110)
    @@ (<<5, 5, 5, 0>> :> 5538576)
    @@ (<<0, -180, 10, 0>> :> 189031375)
    @@ (<<0, -180, -10, 0>> :> 189031375)
    @@ (<<0, -180, 20, 10>> :> 175389154)
    @@ (<<0, -180, 1, 0>> :> 199038919)
    @@ (<<0, -180, 5, 0>> :> 194591122)
    @@ (<<90, 0, 10, 0>> :> 88955941)
    @@ (<<90, 0, -10, 0>> :> 111194927)
    @@ (<<90, 0, 20, 10>> :> 77836449)
    @@ (<<90, 0, 1, 0>> :> 98963485)
    @@ (<<90, 0, 5, 0>> :> 94515688)
    @@ (<<90, -180, 10, 0>> :> 88955941)
    @@ (<<90, -180, -10, 0>> :> 111194927)
    @@ (<<90, -180, 20, 10>> :> 77836449)
    @@ (<<90, -180, 1, 0>> :> 98963485)
    @@ (<<90, -180, 5, 0>> :> 94515688)

\* haversine_distance on floats: math.sin and math.cos raise ValueError on
\* an infinity, and a NaN argument makes the result NaN.
haversine_distance(lat1, lon1, lat2, lon2) ==
  LET dlat == FSub(lat2, lat1)
      dlon == FSub(lon2, lon1)
  IN IF dlat.k = "inf" \/ lat1.k = "inf" \/ lat2.k = "inf" \/ dlon.k = "inf"
       THEN Raise("ValueError")
     ELSE IF dlat.k = "nan" \/ dlon.k = "nan" THEN Return(NaN)
     ELSE Return(Fin(HaversineTable[<<lat1.v, lon1.v, lat2.v, lon2.v>>]))

\* round(distance, 2): units of 0.0001 km to hundredths of a kilometre,
\* half to even.
Round2(distance) ==
  LET q == distance \div 100
      r == distance % 100
  IN IF r > 50 \/ (r = 50 /\ q % 2 = 1) THEN q + 1 ELSE q

\* ------------------------------------------------------------- exceptions
\* Statement sequencing inside a try body: run F on the value of m, unless
\* m raised; the exception then leaves with `state` as the variables stand.
Try(m, state, F(_)) == IF m.exc # "none" THEN [exc |-> m.exc, val |-> state] ELSE F(m.val)

\* try/except: the value of m, or Handler on the exception when the except
\* clause Catches it; another exception propagates.
Catch(m, Catches(_), Handler(_)) ==
  IF m.exc = "none" \/ ~Catches(m.exc) THEN m ELSE Handler(m)

\* ---------------------------------------------------- find_nearest_station
\* The except clause of line 138.
StationExcept(exc) == exc \in {"ValueError", "KeyError"}

\* station[key]: KeyError when the key is missing.
GetItem(station, key) ==
  IF key \in DOMAIN station THEN Return(station[key]) ELSE Raise("KeyError")

\* ScanInit with a default record in place of None.
ScanInitSentinel ==
  [min_distance |-> Inf(1),
   nearest_station |-> [station |-> Text(""), latitude |-> Fin(0), longitude |-> Fin(0),
                        url |-> Text(""), distance_km |-> 0]]

\* The variables of the scan: lines 119-120.
ScanInit == [min_distance |-> Inf(1), nearest_station |-> None]

\* Lines 131-137: the dict display evaluates station['Station'], then
\* station['URL'], then round(distance, 2); the assignment follows.
AssignNearest(station, station_lat, station_lng, distance, scan) ==
  Try(GetItem(station, "Station"), scan, LAMBDA name :
  Try(GetItem(station, "URL"), scan, LAMBDA url :
    Return([scan EXCEPT !.nearest_station =
              [station |-> name,
               latitude |-> station_lat,
               longitude |-> station_lng,
               url |-> url,
               distance_km |-> Round2(distance.v)]])))

\* Lines 129-137: min_distance is assigned (line 130) before the record is
\* built (lines 131-137).
Compare(station, station_lat, station_lng, distance, scan) ==
  IF Lt(distance, scan.min_distance)
    THEN AssignNearest(station, station_lat, station_lng, distance,
                       [scan EXCEPT !.min_distance = distance])
  ELSE Return(scan)

\* Lines 124-137, the try body for one station: [exc, val] with val the
\* variables of the scan when the body ends or raises.
StationBody(user_lat, user_lng, station, scan) ==
  Try(GetItem(station, "Latitude"), scan, LAMBDA latitude :
  Try(Float(latitude), scan, LAMBDA station_lat :
  Try(GetItem(station, "Longitude"), scan, LAMBDA longitude :
  Try(Float(longitude), scan, LAMBDA station_lng :
  Try(haversine_distance(user_lat, user_lng, station_lat, station_lng), scan,
      LAMBDA distance :
        Compare(station, station_lat, station_lng, distance, scan))))))

\* Lines 138-140: the except clause keeps the variables and continues.
StationStep(user_lat, user_lng, station, scan) ==
  Catch(StationBody(user_lat, user_lng, station, scan), StationExcept,
        LAMBDA m : Return(m.val))

\* Lines 122-140: the loop from station i on; an exception the except
\* clause does not name leaves the function.
RECURSIVE ScanStations(_, _, _, _, _)
ScanStations(user_lat, user_lng, stations_data, i, scan) ==
  IF i > Len(stations_data) THEN Return(scan.nearest_station)
  ELSE Try(StationStep(user_lat, user_lng, stations_data[i], scan), None,
           LAMBDA next : ScanStations(user_lat, user_lng, stations_data, i + 1, next))

\* find_nearest_station(user_lat, user_lng, stations_data): [exc, val].
find_nearest_station(user_lat, user_lng, stations_data) ==
  ScanStations(user_lat, user_lng, stations_data, 1, ScanInit)

\* --------------------------------------------- extract_coordinates_from_url
\* A URL argument: a text, held as the sequence of its lexemes, or None.
UrlText(toks) == [t |-> "text", toks |-> toks]
NoUrl == [t |-> "None", toks |-> <<>>]

\* The lexemes that spell a decimal number, with float() of each.
NumValue ==
  ("19" :> 19) @@ ("72" :> 72) @@ ("95" :> 95) @@ ("200" :> 200)
    @@ ("5" :> 5) @@ ("7" :> 7) @@ ("-5" :> -5)

\* The number of digits of each.
NumDigits ==
  ("19" :> 2) @@ ("72" :> 2) @@ ("95" :> 2) @@ ("200" :> 3)
    @@ ("5" :> 1) @@ ("7" :> 1) @@ ("-5" :> 1)

\* -?\d+\.?\d* matches exactly the number lexemes; -?\d+\.?\d+ (line 81)
\* needs two digits or more.
IsNum(tok) == tok \in DOMAIN NumValue
IsWideNum(tok) == IsNum(tok) /\ NumDigits[tok] >= 2

\* urllib.parse.unquote on one lexeme: one level of percent-decoding.
UnquoteLexeme(tok) ==
  CASE tok = "%2C" -> ","
    [] tok = "%40" -> "@"
    [] tok = "%26" -> "&"
    [] tok = "%213d" -> "!3d"
    [] tok = "%25213d" -> "%213d"
    [] OTHER -> tok

\* unquote(url): TypeError when url is not a text.
unquote(url) ==
  IF url.t # "text" THEN Raise("TypeError")
  ELSE Return(UrlText([i \in 1..Len(url.toks) |-> UnquoteLexeme(url.toks[i])]))

At(text, i) == IF i \in 1..Len(text) THEN text[i] ELSE ""

\* re.search: the leftmost position among the matching ones, 0 for no match.
Leftmost(positions) ==
  IF positions = {} THEN 0
  ELSE CHOOSE i \in positions : \A j \in positions : i <= j

NoMatch == <<>>

\* The groups of a match at position i: the lexemes at i + m and i + n.
Groups(text, i, m, n) == IF i = 0 THEN NoMatch ELSE <<text[i + m], text[i + n]>>

\* A pattern  <marker>(number)<separator>(number).
SearchPair(text, marker, separator) ==
  Groups(text,
         Leftmost({j \in 1..Len(text) :
                     /\ text[j] = marker
                     /\ IsNum(At(text, j + 1))
                     /\ At(text, j + 2) = separator
                     /\ IsNum(At(text, j + 3))}),
         1, 3)

\* The text from position i + 1 up to the first "&" after it.
UpToAmpersand(text, i, stop) ==
  IF i = 0 THEN NoMatch
  ELSE <<SubSeq(text, i + 1, IF stop = 0 THEN Len(text) ELSE stop - 1)>>

\* Line 50, pb=([^&]+): the text after the first "pb=" that is followed by
\* a character other than "&", up to the next "&".
PbSearchFrom(text, i) ==
  UpToAmpersand(text, i, Leftmost({j \in (i + 1)..Len(text) : text[j] = "&"}))

PbSearch(text) ==
  PbSearchFrom(text, Leftmost({j \in 1..Len(text) :
                                 text[j] = "pb=" /\ j < Len(text) /\ text[j + 1] # "&"}))

\* Line 57: !3d(number)!4d(number).
PbPattern1(data) == SearchPair(data, "!3d", "!4d")

\* Line 58: 3d(number).*?4d(number): the leftmost "3d" with a number after
\* it and a later "4d" with a number after it, and the first such "4d".
Pattern2From(data, i) ==
  IF i = 0 THEN NoMatch
  ELSE <<data[i + 1],
         data[1 + Leftmost({m \in (i + 2)..Len(data) :
                              data[m] = "!4d" /\ IsNum(At(data, m + 1))})]>>

PbPattern2(data) ==
  Pattern2From(data,
               Leftmost({j \in 1..Len(data) :
                           /\ data[j] = "!3d"
                           /\ IsNum(At(data, j + 1))
                           /\ \E m \in (j + 2)..Len(data) :
                                data[m] = "!4d" /\ IsNum(At(data, m + 1))}))

\* Line 59: !2d(number)!3d(number).
PbPattern3(data) == SearchPair(data, "!2d", "!3d")

\* Line 71: @(number),(number).
AtPattern(text) == SearchPair(text, "@", ",")

\* Line 81: (number),(number), each of two digits or more.
BarePattern(text) ==
  Groups(text,
         Leftmost({j \in 1..Len(text) :
                     /\ IsWideNum(text[j])
                     /\ At(text, j + 1) = ","
                     /\ IsWideNum(At(text, j + 2))}),
         0, 2)

\* Lines 82 and 83.
LlPattern(text) == SearchPair(text, "ll=", ",")
CenterPattern(text) == SearchPair(text, "center=", ",")

NoCoordinates == <<None, None>>

\* Line 92.
InRange(lat, lng) ==
  /\ Le(Fin(-90), lat) /\ Le(lat, Fin(90))
  /\ Le(Fin(-180), lng) /\ Le(lng, Fin(180))

\* Lines 64-68 and 73-77: a match returns float(group(1)), float(group(2)).
Found(match) ==
  IF match = NoMatch THEN NoCoordinates
  ELSE <<Fin(NumValue[match[1]]), Fin(NumValue[match[2]])>>

\* Lines 88-94: a match returns its floats when they are in range.
FoundInRange(match) ==
  IF match # NoMatch /\ InRange(Fin(NumValue[match[1]]), Fin(NumValue[match[2]]))
    THEN Found(match)
  ELSE NoCoordinates

\* Sequential attempts: the first that returns coordinates, else the second.
OrElse(first, second) == IF first # NoCoordinates THEN first ELSE second

\* Lines 56-68: the sub-patterns on the decoded pb data, in the order of
\* the list of line 56.
PbCoordinates(pb_data) ==
  OrElse(Found(PbPattern1(pb_data)),
  OrElse(Found(PbPattern2(pb_data)),
         Found(PbPattern3(pb_data))))

\* Lines 49-68: the pb parameter.
PbData(pb_match) ==
  IF pb_match = NoMatch THEN NoCoordinates
  ELSE PbCoordinates(unquote(UrlText(pb_match[1])).val.toks)

Method1(text) == PbData(PbSearch(text))

\* Lines 71-77.
Method2(text) == Found(AtPattern(text))

\* Lines 80-94: the direct patterns in the order of the list of line 80.
Method3(text) ==
  OrElse(FoundInRange(BarePattern(text)),
  OrElse(FoundInRange(LlPattern(text)),
         FoundInRange(CenterPattern(text))))

\* Methods with the @ pattern tried before the pb parameter.
MethodsAtFirst(text) == OrElse(Method2(text), OrElse(Method1(text), Method3(text)))

\* Lines 48-97 on the decoded text.
Methods(text) == OrElse(Method1(text), OrElse(Method2(text), Method3(text)))

\* Lines 45-97, the try body: [exc, val].
ExtractBody(url) ==
  Try(unquote(url), None, LAMBDA decoded : Return(Methods(decoded.toks)))

\* ExtractExcept that names ValueError alone.
ExtractExceptValueError(exc) == exc = "ValueError"

\* Line 98: except Exception catches every exception of the try body.
ExtractExcept(exc) == TRUE

\* extract_coordinates_from_url(url): [exc, val].
extract_coordinates_from_url(url) ==
  Catch(ExtractBody(url), ExtractExcept, LAMBDA m : Return(NoCoordinates))

\* ------------------------------------------------------------ HTTP handlers
Response(status, body) == [status |-> status, body |-> body]
ErrorBody(message) == [error |-> message]

\* ParamsInRange written with "<" on the bounds: lat < -90 or lat > 90.
ParamsInRangeByLess(user_lat, user_lng) ==
  ~(Lt(user_lat, Fin(-90)) \/ Lt(Fin(90), user_lat)
      \/ Lt(user_lng, Fin(-180)) \/ Lt(Fin(180), user_lng))

\* Line 177.
ParamsInRange(user_lat, user_lng) ==
  ~(~(Le(Fin(-90), user_lat) /\ Le(user_lat, Fin(90)))
      \/ ~(Le(Fin(-180), user_lng) /\ Le(user_lng, Fin(180))))

\* Lines 172-181 on the parsed parameters: a ValueError of float() is
\* caught (line 180); [exc, val] with exc = "reject" and val the 400
\* response, or exc = "none" and val = <<user_lat, user_lng>>.
CheckParsed(user_lat, user_lng) ==
  IF user_lat.exc = "ValueError" \/ (user_lat.exc = "none" /\ user_lng.exc = "ValueError")
    THEN [exc |-> "reject",
          val |-> Response(400, ErrorBody(<<"Invalid coordinate format. Please provide numeric values for lat and lng">>))]
  ELSE IF user_lat.exc # "none" THEN user_lat
  ELSE IF user_lng.exc # "none" THEN user_lng
  ELSE IF ~ParamsInRange(user_lat.val, user_lng.val)
    THEN [exc |-> "reject",
          val |-> Response(400, ErrorBody(<<"Invalid coordinates. Latitude must be between -90 and 90, longitude between -180 and 180">>))]
  ELSE Return(<<user_lat.val, user_lng.val>>)

\* Lines 166-181.
CheckParams(lat_param, lng_param) ==
  IF ~Truthy(lat_param) \/ ~Truthy(lng_param)
    THEN [exc |-> "reject",
          val |-> Response(400, ErrorBody(<<"Please provide both 'lat' and 'lng' parameters">>))]
  ELSE CheckParsed(Float(lat_param), Float(lng_param))

\* The spreadsheet as one request finds it: the call that fails ("" for
\* none), the text of its error, and the rows get_all_records returns.
Sheet(fail, error, rows) == [fail |-> fail, error |-> error, rows |-> rows]
SheetCallOrder == <<"open_by_key", "worksheet", "get_all_records">>

\* The collaborator calls lines 185-189 make, which stop at the one that
\* raises.
FetchCalls(sheet) ==
  IF sheet.fail = "" THEN SheetCallOrder
  ELSE SubSeq(SheetCallOrder, 1,
              CHOOSE i \in 1..Len(SheetCallOrder) : SheetCallOrder[i] = sheet.fail)

\* Lines 185-189: [exc, val].
FetchRows(sheet) ==
  IF sheet.fail = "" THEN Return(sheet.rows) ELSE Raise(sheet.error)

\* Lines 197-209.
StationResponse(nearest) ==
  IF nearest = None
    THEN Response(404, ErrorBody(<<"Could not find any valid stations">>))
  ELSE Response(200, [distance_km |-> nearest.distance_km,
                      latitude |-> nearest.latitude,
                      longitude |-> nearest.longitude,
                      nearest_station |-> nearest.station,
                      url |-> nearest.url])

\* Lines 191-209.
RowsResponse(user_lat, user_lng, data) ==
  IF data = <<>>
    THEN Return(Response(404, ErrorBody(<<"No station data found in the sheet">>)))
  ELSE Try(find_nearest_station(user_lat, user_lng, data), None,
           LAMBDA nearest : Return(StationResponse(nearest)))

\* Lines 185-209, the try body for validated coordinates: [exc, val] with
\* val the response returned.
LookUpBody(user_lat, user_lng, sheet) ==
  Try(FetchRows(sheet), None, LAMBDA data : RowsResponse(user_lat, user_lng, data))

\* SheetExcept that names one exception of the client library.
SheetExceptApiError(exc) == exc = "APIError"

\* Line 211: except Exception catches every exception of the try body.
SheetExcept(exc) == TRUE

\* An exception that leaves a view is the framework's 500.
Served(m) ==
  IF m.exc = "none" THEN m.val
  ELSE Response(500, ErrorBody(<<"Internal Server Error">>))

\* Lines 183-212: the response.
LookUp(user_lat, user_lng, sheet) ==
  Served(Catch(LookUpBody(user_lat, user_lng, sheet), SheetExcept,
               LAMBDA m : Return(Response(500,
                            ErrorBody(<<"Could not access sheet data: ", m.exc>>)))))

\* The response once the parameters are checked.
AfterCheck(checked, sheet) ==
  IF checked.exc = "reject" THEN checked.val
  ELSE IF checked.exc # "none" THEN Served(checked)
  ELSE LookUp(checked.val[1], checked.val[2], sheet)

\* nearest_station(): the response.
nearest_station(lat_param, lng_param, sheet) ==
  AfterCheck(CheckParams(lat_param, lng_param), sheet)

\* The collaborator calls of nearest_station().
SheetCallsOf(lat_param, lng_param, sheet) ==
  IF CheckParams(lat_param, lng_param).exc = "none" THEN FetchCalls(sheet) ELSE <<>>

\* UrlTruthy as "is not None": the empty text counts as given.
UrlNotNone(url) == url.t = "text"

\* Python truthiness of the url parameter.
UrlTruthy(url) == url.t = "text" /\ url.toks # <<>>

\* Lines 155-161.
DebugBody(maps_url, user_lat, user_lng) ==
  [input_url |-> maps_url,
   decoded_url |-> unquote(maps_url).val,
   extracted_latitude |-> user_lat,
   extracted_longitude |-> user_lng,
   success |-> user_lat # None /\ user_lng # None]

\* debug_url(): the response.
debug_url(maps_url) ==
  IF ~UrlTruthy(maps_url)
    THEN Response(400, ErrorBody(<<"Please provide a URL parameter">>))
  ELSE Served(Try(extract_coordinates_from_url(maps_url), None,
                  LAMBDA found : Return(Response(200, DebugBody(maps_url, found[1], found[2])))))

\* health_check() and home().
health_check == Response(200, [status |-> "healthy", message |-> "Nearest Station API is running"])
home == Response(200, [message |-> "Nearest Station API",
                       usage |-> "GET /nearest_station?lat=LATITUDE&lng=LONGITUDE",
                       health_check |-> "GET /health"])

\* ------------------------------------------------------------------ inputs
Station(name, lat, lng) ==
  [Station |-> Text(name), Latitude |-> lat, Longitude |-> lng, URL |-> Text("maps")]

Without(station, key) == [f \in DOMAIN station \ {key} |-> station[f]]

\* Station records: well formed ones, and ones malformed in one field.
StationRecords ==
  { Station("A", Number(10), Number(0)),
    Station("B", NumText(-10), Number(0)),
    Station("C", Number(20), NumText(10)),
    Station("W", Word, Number(0)),
    Station("E", Empty, Number(10)),
    Station("N", None, Number(0)),
    Station("L", Number(1), Word),
    Station("Q", NanText, Number(0)),
    Station("I", Number(1), InfText(1)),
    Without(Station("M", Number(1), Number(0)), "Latitude"),
    Without(Station("U", Number(1), Number(0)), "URL"),
    Without(Station("S", Number(5), Number(0)), "Station") }

StationLists(n) == [1..n -> StationRecords]

\* What get_all_records returns: every row has the columns of the header
\* row, and a cell is a number or a text.
SheetRows(n) ==
  {rows \in StationLists(n) :
     \A i \in 1..n :
       /\ DOMAIN rows[i] = DOMAIN rows[1]
       /\ \A f \in DOMAIN rows[i] : rows[i][f] # None}

\* The sheet calls that fail, and the error each raises.
SheetFailures ==
  {Sheet(call, error, <<>>) :
     call \in {"open_by_key", "worksheet", "get_all_records"},
     error \in {"APIError", "WorksheetNotFound"}}

Untouched == Sheet("untouched", "", <<>>)

\* Query coordinates for a direct call of find_nearest_station.
Queries == {<<0, 0>>, <<5, 5>>}

\* request.args.get("lat") and ("lng"): None or a text.
LatParams ==
  {None, Empty, Word, NanText, InfText(1), InfText(-1),
   NumText(0), NumText(90), NumText(91), NumText(-91)}
LngParams ==
  {None, Empty, Word, NanText, InfText(1), InfText(-1),
   NumText(0), NumText(-180), NumText(181), NumText(-181)}

\* URL texts: up to MaxSegments of these pieces, one after the other.
Segments ==
  { <<"pb=">>,
    <<"&">>,
    <<"!3d", "95", "!4d", "200">>,
    <<"!3d", "19">>,
    <<"%25213d", "19">>,
    <<"!4d", "72">>,
    <<"!2d", "5">>,
    <<"@", "19", ",", "72">>,
    <<"%40", "95", "%2C", "200">>,
    <<"q=", "19", ",", "72">>,
    <<"q=", "95", ",", "72">>,
    <<"ll=", "5", ",", "7">>,
    <<"ll=", "95", ",", "7">>,
    <<"center=", "-5", ",", "7">> }

RECURSIVE Flatten(_)
Flatten(pieces) ==
  IF pieces = <<>> THEN <<>> ELSE Head(pieces) \o Flatten(Tail(pieces))

UrlTexts(n) == [1..n -> Segments]

\* ----------------------------------------------------------- specification
\* The handlers share no state (the sheet is fetched afresh by every
\* request), so a behaviour is one call: Init holds the call and its
\* arguments, the action of the operation called runs it to its end.
Call(name, arguments) == op = name /\ args = arguments

Init ==
  /\ pc = "called"
  /\ result = None
  /\ sheetCalls = <<>>
  /\ \/ \E q \in Queries, n \in 0..MaxStations : \E rows \in StationLists(n) :
          Call("find_nearest_station",
               [user_lat |-> Fin(q[1]), user_lng |-> Fin(q[2]), stations_data |-> rows])
     \/ \E name \in {"extract_coordinates_from_url", "debug_url"} :
          \/ Call(name, [url |-> NoUrl])
          \/ \E n \in 0..MaxSegments : \E pieces \in UrlTexts(n) :
               Call(name, [url |-> UrlText(Flatten(pieces))])
     \/ \E lat \in LatParams, lng \in LngParams :
          IF CheckParams(lat, lng).exc = "reject"
          THEN Call("nearest_station", [lat |-> lat, lng |-> lng, sheet |-> Untouched])
          ELSE \/ \E sheet \in SheetFailures :
                    Call("nearest_station", [lat |-> lat, lng |-> lng, sheet |-> sheet])
               \/ \E n \in 0..MaxStations : \E rows \in SheetRows(n) :
                    Call("nearest_station",
                         [lat |-> lat, lng |-> lng, sheet |-> Sheet("", "", rows)])
     \/ \E name \in {"health_check", "home"} : Call(name, <<>>)

\* A direct call of find_nearest_station.
CallFindNearestStation ==
  /\ pc = "called" /\ op = "find_nearest_station"
  /\ result' = find_nearest_station(args.user_lat, args.user_lng, args.stations_data)
  /\ pc' = "returned"
  /\ UNCHANGED <<op, args, sheetCalls>>

\* A direct call of extract_coordinates_from_url.
CallExtractCoordinates ==
  /\ pc = "called" /\ op = "extract_coordinates_from_url"
  /\ result' = extract_coordinates_from_url(args.url)
  /\ pc' = "returned"
  /\ UNCHANGED <<op, args, sheetCalls>>

\* GET /nearest_station.
NearestStationRequest ==
  /\ pc = "called" /\ op = "nearest_station"
  /\ result' = nearest_station(args.lat, args.lng, args.sheet)
  /\ sheetCalls' = SheetCallsOf(args.lat, args.lng, args.sheet)
  /\ pc' = "returned"
  /\ UNCHANGED <<op, args>>

\* GET /debug_url.
DebugUrlRequest ==
  /\ pc = "called" /\ op = "debug_url"
  /\ result' = debug_url(args.url)
  /\ pc' = "returned"
  /\ UNCHANGED <<op, args, sheetCalls>>

\* GET /health.
HealthCheckRequest ==
  /\ pc = "called" /\ op = "health_check"
  /\ result' = health_check
  /\ pc' = "returned"
  /\ UNCHANGED <<op, args, sheetCalls>>

\* GET /.
HomeRequest ==
  /\ pc = "called" /\ op = "home"
  /\ result' = home
  /\ pc' = "returned"
  /\ UNCHANGED <<op, args, sheetCalls>>

Next ==
  \/ CallFindNearestStation
  \/ CallExtractCoordinates
  \/ NearestStationRequest
  \/ DebugUrlRequest
  \/ HealthCheckRequest
  \/ HomeRequest

Spec == Init /\ [][Next]_vars

\* ================================================================== claims
Returned(name) == pc = "returned" /\ op = name

\* A field of a station record parses as a (finite) number.
ParsesAsNumber(station, field) ==
  /\ field \in DOMAIN station
  /\ station[field].t \in {"number", "numtext"}

ValidStation(station) ==
  ParsesAsNumber(station, "Latitude") /\ ParsesAsNumber(station, "Longitude")

\* A field fails to parse: non-numeric text, empty, null, or missing.
FailsToParse(station, field) ==
  field \notin DOMAIN station \/ station[field].t \in {"word", "empty", "None"}

MalformedStation(station) ==
  FailsToParse(station, "Latitude") \/ FailsToParse(station, "Longitude")

\* A record with every field present and coordinates that parse.
WellFormedStation(station) ==
  ValidStation(station) /\ {"Station", "URL"} \subseteq DOMAIN station

\* The distance from the query of the call to a valid station.
DistanceTo(station) ==
  HaversineTable[<<args.user_lat.v, args.user_lng.v,
                   station.Latitude.v, station.Longitude.v>>]

\* The indexes of the records that satisfy Valid and are, among those, at
\* the least distance from the query.
Nearest(Valid(_)) ==
  {i \in 1..Len(args.stations_data) :
     /\ Valid(args.stations_data[i])
     /\ \A j \in 1..Len(args.stations_data) :
          Valid(args.stations_data[j]) =>
            DistanceTo(args.stations_data[i]) <= DistanceTo(args.stations_data[j])}

\* The record find_nearest_station builds from a station.
BuiltFrom(record, station) ==
  /\ record # None
  /\ {"Station", "URL"} \subseteq DOMAIN station
  /\ record.station = station.Station
  /\ record.url = station.URL
  /\ record.latitude = Fin(station.Latitude.v)
  /\ record.longitude = Fin(station.Longitude.v)

NoNullCell(station) == \A f \in DOMAIN station : station[f] # None

\* C1: whenever the sequence holds a valid record, find_nearest_station
\* returns a record built from a valid station at the least distance among
\* the valid ones, with distance_km that distance rounded to 2 decimal
\* places.  "Valid" is read here in the way most favourable to the code: a
\* record with all four fields whose coordinates parse, in data without a
\* null cell; what the claim says of records it calls valid on the
\* coordinates alone implies this.
C1_ReturnsMinimumDistanceStation ==
  (/\ Returned("find_nearest_station")
   /\ \A i \in 1..Len(args.stations_data) : NoNullCell(args.stations_data[i])
   /\ Nearest(WellFormedStation) # {}) =>
    /\ result.exc = "none"
    /\ \E i \in Nearest(WellFormedStation) :
         /\ BuiltFrom(result.val, args.stations_data[i])
         /\ result.val.distance_km = Round2(DistanceTo(args.stations_data[i]))

\* C2: when two or more valid records are at the same least distance,
\* find_nearest_station returns the first of them in the order of the
\* data.  Stated for the ties in which every tied record has all four
\* fields.
C2_FirstOfTiedStationsWins ==
  (/\ Returned("find_nearest_station")
   /\ Cardinality(Nearest(ValidStation)) >= 2
   /\ \A i \in Nearest(ValidStation) : WellFormedStation(args.stations_data[i])) =>
    /\ result.exc = "none"
    /\ BuiltFrom(result.val,
                 args.stations_data[CHOOSE i \in Nearest(ValidStation) :
                                      \A j \in Nearest(ValidStation) : i <= j])

\* C3: a record whose Latitude or Longitude fails to parse (non-numeric
\* text, empty, null, missing) is skipped silently: the call raises nothing
\* and returns what it returns on the data without the malformed records.
C3_MalformedRecordsAreSkipped ==
  Returned("find_nearest_station") =>
    /\ result.exc = "none"
    /\ result = find_nearest_station(
                  args.user_lat, args.user_lng,
                  SelectSeq(args.stations_data, LAMBDA st : ~MalformedStation(st)))

\* A /nearest_station request whose parameters are numbers in range.
ValidRequest ==
  /\ Returned("nearest_station")
  /\ args.lat.t = "numtext" /\ -90 <= args.lat.v /\ args.lat.v <= 90
  /\ args.lng.t = "numtext" /\ -180 <= args.lng.v /\ args.lng.v <= 180

IsError(response, status) ==
  response.status = status /\ DOMAIN response.body = {"error"}

\* C4: for a request with valid parameters, a fetched dataset that is empty
\* or holds only malformed records makes find_nearest_station report None
\* and the handler answer 404 with an error message.
C4_NoValidStationIs404 ==
  (/\ ValidRequest
   /\ args.sheet.fail = ""
   /\ \A i \in 1..Len(args.sheet.rows) : MalformedStation(args.sheet.rows[i])) =>
    /\ IsError(result, 404)
    /\ find_nearest_station(Fin(args.lat.v), Fin(args.lng.v), args.sheet.rows) = Return(None)

C4_Witness ==
  /\ ValidRequest
  /\ args.sheet.fail = ""
  /\ Len(args.sheet.rows) >= 2
  /\ \A i \in 1..Len(args.sheet.rows) : MalformedStation(args.sheet.rows[i])
  /\ IsError(result, 404)

\* A parameter is missing, is not numeric, or is out of the range lo..hi
\* (NaN and the infinities included).
BadParam(param, lo, hi) ==
  \/ param.t \in {"None", "empty"}
  \/ param.t = "word"
  \/ param.t \in {"nantext", "inftext"}
  \/ param.t = "numtext" /\ (param.v < lo \/ param.v > hi)

\* C5: a /nearest_station request with lat or lng missing, not numeric or
\* out of range (NaN and infinity included) answers 400 with an error
\* message, never 200.
C5_BadParametersAre400 ==
  (/\ Returned("nearest_station")
   /\ (BadParam(args.lat, -90, 90) \/ BadParam(args.lng, -180, 180))) =>
    IsError(result, 400)

C5_Witness ==
  /\ Returned("nearest_station")
  /\ args.lat.t = "nantext"
  /\ args.lng = NumText(0)
  /\ IsError(result, 400)

\* C6: for a request with valid parameters, a failure of open_by_key,
\* worksheet or get_all_records answers 500 with the upstream error in the
\* message; the calls stop at the failing one and none is made twice.
C6_SheetFailureIs500 ==
  (ValidRequest /\ args.sheet.fail # "") =>
    /\ result = Response(500, ErrorBody(<<"Could not access sheet data: ", args.sheet.error>>))
    /\ \E n \in 1..Len(SheetCallOrder) :
         /\ SheetCallOrder[n] = args.sheet.fail
         /\ sheetCalls = SubSeq(SheetCallOrder, 1, n)

C6_Witness ==
  /\ ValidRequest
  /\ args.sheet.fail = "worksheet"
  /\ args.sheet.error = "WorksheetNotFound"
  /\ result.status = 500
  /\ sheetCalls = <<"open_by_key", "worksheet">>

\* The text the patterns are matched against, for a call on a text.
DecodedText == [i \in 1..Len(args.url.toks) |-> UnquoteLexeme(args.url.toks[i])]

\* No pattern matches, or validation fails for every match.
NothingToExtract(text) ==
  /\ PbSearch(text) = NoMatch \/ Method1(text) = NoCoordinates
  /\ AtPattern(text) = NoMatch
  /\ \A match \in {BarePattern(text), LlPattern(text), CenterPattern(text)} :
       match = NoMatch
         \/ ~(-90 <= NumValue[match[1]] /\ NumValue[match[1]] <= 90
                /\ -180 <= NumValue[match[2]] /\ NumValue[match[2]] <= 180)

\* C7: extract_coordinates_from_url raises nothing; when an internal step
\* throws, when no pattern matches, or when validation fails for every
\* pattern, it returns (None, None).
C7_ExtractNeverRaises ==
  Returned("extract_coordinates_from_url") =>
    /\ result.exc = "none"
    /\ args.url.t # "text" => result.val = NoCoordinates
    /\ (args.url.t = "text" /\ NothingToExtract(DecodedText)) => result.val = NoCoordinates

C7_Witness ==
  /\ Returned("extract_coordinates_from_url")
  /\ args.url = NoUrl
  /\ result = Return(NoCoordinates)

\* The strategies in the priority order of the claim, each with what it
\* returns on the text ((None, None) when it fails).
Strategies(text) ==
  <<Method1(text),
    Found(AtPattern(text)),
    FoundInRange(BarePattern(text)),
    FoundInRange(LlPattern(text)),
    FoundInRange(CenterPattern(text))>>

\* The value is that of the first strategy that succeeded.
FirstSuccess(strategies, value) ==
  /\ \A n \in 1..Len(strategies) :
       (/\ strategies[n] # NoCoordinates
        /\ \A m \in 1..(n - 1) : strategies[m] = NoCoordinates)
         => value = strategies[n]
  /\ (\A n \in 1..Len(strategies) : strategies[n] = NoCoordinates)
         => value = NoCoordinates

\* C8: the result is that of the first strategy that succeeds, in the order
\* pb, @, bare pair, ll=, center=: strategy n decides only when every one
\* before it failed, also when pb= is present and no sub-pattern matches.
C8_FirstStrategyWins ==
  (Returned("extract_coordinates_from_url") /\ args.url.t = "text") =>
    /\ result.exc = "none"
    /\ FirstSuccess(Strategies(DecodedText), result.val)

C8_Witness ==
  /\ Returned("extract_coordinates_from_url")
  /\ args.url.t = "text"
  /\ PbSearch(DecodedText) # NoMatch
  /\ Method1(DecodedText) = NoCoordinates
  /\ Found(AtPattern(DecodedText)) = NoCoordinates
  /\ FoundInRange(BarePattern(DecodedText)) = NoCoordinates
  /\ FoundInRange(LlPattern(DecodedText)) = NoCoordinates
  /\ LlPattern(DecodedText) # NoMatch
  /\ result.val = Found(CenterPattern(DecodedText))
  /\ result.val # NoCoordinates

\* C9: every pair extract_coordinates_from_url returns as a success, by any
\* strategy, has latitude in [-90, 90] and longitude in [-180, 180].
C9_ExtractedPairIsInRange ==
  (Returned("extract_coordinates_from_url") /\ result.val # NoCoordinates) =>
    /\ -90 <= result.val[1].v /\ result.val[1].v <= 90
    /\ -180 <= result.val[2].v /\ result.val[2].v <= 180

IsNumber(x) == DOMAIN x = {"k", "v"} /\ x.k = "fin"

\* C10: /debug_url answers 400 exactly when url is missing or empty and 200
\* otherwise; in the 200 response the extracted latitude and longitude are
\* both null or both numbers, and success is true exactly when both are
\* numbers.
C10_DebugUrlResponses ==
  Returned("debug_url") =>
    /\ result.status = 400 <=> (args.url.t = "None" \/ args.url.toks = <<>>)
    /\ result.status \in {200, 400}
    /\ result.status = 200 =>
         /\ \/ result.body.extracted_latitude = None /\ result.body.extracted_longitude = None
            \/ IsNumber(result.body.extracted_latitude) /\ IsNumber(result.body.extracted_longitude)
         /\ result.body.success <=>
              (IsNumber(result.body.extracted_latitude) /\ IsNumber(result.body.extracted_longitude))

C10_Witness ==
  /\ Returned("debug_url")
  /\ result.status = 200
  /\ result.body.success
  /\ result.body.input_url # result.body.decoded_url

====
